---- MODULE Spec2Model ----
(***************************************************************************)
(* State-machine model of the layer stores of layer_store.py:              *)
(* SetLayerStore, AdditiveLayerStore and SequenceLayerStore.  Every store  *)
(* operation is one action; the ghost variable `last` records the call     *)
(* that was made last (its name, argument, return value, raised exception) *)
(* and `pre` holds the called store as it was before it; for a             *)
(* SetLayerStore `prev` and `pre2` hold the same of the call before that.  *)
(***************************************************************************)
EXTENDS Integers, Sequences, FiniteSets

VARIABLES
    apply_wraps,  \* per catalog layer: number of invert_color wrappers on layer.apply
    set_layer,    \* SetLayerStore.layer
    set_layers,   \* SetLayerStore.layers, the ArrayR(20) indexed by layer.index
    add_stack,    \* AdditiveLayerStore.stack, bottom first, top last
    add_queue,    \* AdditiveLayerStore.queue, front first, rear last
    seq_layers,   \* SequenceLayerStore.layers, the ArraySortedList in traversal order
    last,         \* ghost: the last call [op, arg, ret, raised]
    prev,         \* ghost (SetLayerStore): the call before the last one
    pre,          \* ghost: the called store before the last call (<<>>: no call yet)
    pre2,         \* ghost (SetLayerStore): the store before the call before the last
    grid          \* Grid: the constructed object's attributes (NoGrid: no object)

vars == <<apply_wraps, set_layer, set_layers, add_stack, add_queue, seq_layers,
          last, prev, pre, pre2, grid>>

----------------------------------------------------------------------------
(* Bounds of the model. *)

\* the longest stack / queue of an AdditiveLayerStore the model explores
MaxLen == 3
\* the most invert_color wrappers the model puts around one layer's apply
MaxWraps == 3

----------------------------------------------------------------------------
(* The layer catalog (layers.py / layer_util.py, imported at               *)
(* layer_store.py:3 and :8): three of its layers.                          *)

None == "None"

Layers == {"invert", "red", "green"}

\* layer.index: the position in the catalog
LayerIndex(l) == CASE l = "invert" -> 3 [] l = "red" -> 4 [] l = "green" -> 5

\* rank of layer.name in lexicographic order: green < invert < red
NameRank(l) == CASE l = "green" -> 1 [] l = "invert" -> 2 [] l = "red" -> 3

\* the base colours a caller passes to get_color
BaseColors == {<<0, 0, 0>>, <<10, 200, 255>>}

\* the catalog's own apply function of a layer, before any wrapping
CatalogApply(l, c) ==
    CASE l = "invert" -> <<255 - c[1], 255 - c[2], 255 - c[3]>>
      [] l = "red"    -> <<255, 0, 0>>
      [] l = "green"  -> <<0, 255, 0>>

\* layer.color, the fixed colour of a layer
LayerColor(l) == CatalogApply(l, <<0, 0, 0>>)

----------------------------------------------------------------------------
(* SetLayerStore *)

\* the single-slot store's array capacity, ArrayR(20)
SLOTS == 20

SlotIndexes == 0 .. (SLOTS - 1)

\* invert_color with the channels returned in the wrong order
invert_color_rotated(c) == <<255 - c[2], 255 - c[3], 255 - c[1]>>

\* invert_color(f)'s inner function inv: the colour f returned, inverted
invert_color(c) == <<255 - c[1], 255 - c[2], 255 - c[3]>>

RECURSIVE Wrapped(_, _)
\* a colour passed through n nested inv wrappers
Wrapped(c, n) == IF n = 0 THEN c ELSE invert_color(Wrapped(c, n - 1))

\* layer.apply(start, ...) as it is after `wraps[l]` assignments by special()
LayerApply(l, wraps, start) == Wrapped(CatalogApply(l, start), wraps[l])

\* the ghost snapshots a call of each store takes: that store's own attributes
SetSnapshot ==
    [apply_wraps |-> apply_wraps, set_layer |-> set_layer, set_layers |-> set_layers]
AddSnapshot == [add_stack |-> add_stack, add_queue |-> add_queue]
SeqSnapshot == [seq_layers |-> seq_layers]

\* the ghost variables after a call of a store that keeps one call of history
Record(op, arg, ret, raised, snapshot) ==
    /\ last' = [op |-> op, arg |-> arg, ret |-> ret, raised |-> raised]
    /\ pre' = snapshot
    /\ UNCHANGED <<prev, pre2>>

\* the ghost variables after a call of a SetLayerStore, which keeps two calls
RecordTwo(op, arg, ret, raised) ==
    /\ last' = [op |-> op, arg |-> arg, ret |-> ret, raised |-> raised]
    /\ pre' = SetSnapshot
    /\ prev' = last
    /\ pre2' = pre

\* SetLayerStore.get_color on a store with the given current layer
SetColorOf(current, wraps, start) ==
    IF current # None THEN LayerApply(current, wraps, start) ELSE start

\* add that keeps the layer already set instead of replacing it
SetAddKeepFirst(layer) ==
    /\ IF layer # None
       THEN /\ set_layers' = [set_layers EXCEPT ![LayerIndex(layer)] = layer]
            /\ set_layer' = IF set_layer = None THEN layer ELSE set_layer
            /\ RecordTwo("SetAdd", layer, TRUE, None)
       ELSE /\ UNCHANGED <<set_layers, set_layer>>
            /\ RecordTwo("SetAdd", layer, FALSE, None)
    /\ UNCHANGED <<apply_wraps, add_stack, add_queue, seq_layers, grid>>

\* SetLayerStore.add(layer)
SetAdd(layer) ==
    /\ IF layer # None
       THEN /\ set_layers' = [set_layers EXCEPT ![LayerIndex(layer)] = layer]
            /\ set_layer' = layer
            /\ RecordTwo("SetAdd", layer, TRUE, None)
       ELSE /\ UNCHANGED <<set_layers, set_layer>>
            /\ RecordTwo("SetAdd", layer, FALSE, None)
    /\ UNCHANGED <<apply_wraps, add_stack, add_queue, seq_layers, grid>>

\* SetLayerStore.erase(layer)
SetErase(layer) ==
    /\ IF layer = None
       THEN \* layer.index of None
            /\ UNCHANGED <<set_layers, set_layer>>
            /\ RecordTwo("SetErase", layer, None, "AttributeError")
       ELSE IF set_layers[LayerIndex(layer)] # None
       THEN /\ set_layers' = [set_layers EXCEPT ![LayerIndex(layer)] = None]
            /\ set_layer' = None
            /\ RecordTwo("SetErase", layer, TRUE, None)
       ELSE /\ UNCHANGED <<set_layers, set_layer>>
            /\ RecordTwo("SetErase", layer, FALSE, None)
    /\ UNCHANGED <<apply_wraps, add_stack, add_queue, seq_layers, grid>>

\* SetLayerStore.get_color(start, timestamp, x, y)
SetGetColor(start) ==
    /\ RecordTwo("SetGetColor", start, SetColorOf(set_layer, apply_wraps, start), None)
    /\ UNCHANGED <<apply_wraps, set_layer, set_layers, add_stack, add_queue, seq_layers, grid>>

\* the layers held in the slot array
SlotLayers == {set_layers[i] : i \in SlotIndexes} \ {None}

\* SetLayerStore.special()
SetSpecial ==
    /\ \A l \in SlotLayers : apply_wraps[l] < MaxWraps
    /\ apply_wraps' = [l \in Layers |->
                          IF l \in SlotLayers THEN apply_wraps[l] + 1 ELSE apply_wraps[l]]
    /\ RecordTwo("SetSpecial", None, None, None)
    /\ UNCHANGED <<set_layer, set_layers, add_stack, add_queue, seq_layers, grid>>

----------------------------------------------------------------------------
(* AdditiveLayerStore.  The ArrayStack is a sequence with its top last     *)
(* (push appends, pop and peek take the last element); the CircularQueue   *)
(* is a sequence with its front first (append adds at the rear, serve      *)
(* takes the head).                                                        *)

\* the positions a caller passes to erase: every stored position and one beyond
Positions == 0 .. MaxLen

\* the stack without its top
Popped(stack) == SubSeq(stack, 1, Len(stack) - 1)

\* the top of the stack
Top(stack) == stack[Len(stack)]

\* max_capacity of the store's ArrayStack and of its CircularQueue
MAX_CAPACITY == 100

\* ArrayStack.is_full / CircularQueue.is_full: a push or append on a full
\* container raises instead of storing
IsFull(container) == Len(container) >= MAX_CAPACITY

\* add that swallows the error of a full container
AddAddDropsWhenFull(layer) ==
    /\ IF IsFull(add_stack) \/ IsFull(add_queue)
       THEN /\ UNCHANGED <<add_stack, add_queue>>
            /\ Record("AddAdd", layer, None, None, AddSnapshot)
       ELSE /\ add_stack' = Append(add_stack, layer)
            /\ add_queue' = Append(add_queue, layer)
            /\ Record("AddAdd", layer, None, None, AddSnapshot)
    /\ UNCHANGED <<apply_wraps, set_layer, set_layers, seq_layers, grid>>

\* AdditiveLayerStore.add(layer)
AddAdd(layer) ==
    /\ IF IsFull(add_stack)
       THEN \* stack.push raises
            /\ UNCHANGED <<add_stack, add_queue>>
            /\ Record("AddAdd", layer, None, "Exception", AddSnapshot)
       ELSE IF IsFull(add_queue)
       THEN \* the layer is pushed, then queue.append raises
            /\ add_stack' = Append(add_stack, layer)
            /\ UNCHANGED add_queue
            /\ Record("AddAdd", layer, None, "Exception", AddSnapshot)
       ELSE /\ add_stack' = Append(add_stack, layer)
            /\ add_queue' = Append(add_queue, layer)
            /\ Record("AddAdd", layer, None, None, AddSnapshot)
    /\ UNCHANGED <<apply_wraps, set_layer, set_layers, seq_layers, grid>>

RECURSIVE RotateQueue(_, _)
\* `times` rounds of queue.append(queue.serve())
RotateQueue(queue, times) ==
    IF times = 0 THEN queue
    ELSE RotateQueue(Append(Tail(queue), Head(queue)), times - 1)

\* AdditiveLayerStore.special()
AddSpecial ==
    /\ IF add_stack = <<>>
       THEN \* stack.top() of an empty stack
            /\ UNCHANGED <<add_stack, add_queue>>
            /\ Record("AddSpecial", None, None, "Exception", AddSnapshot)
       ELSE LET layer == Top(add_stack)
                pushed == Append(Popped(add_stack), layer)
                appended == Append(add_queue, layer)
            IN IF IsFull(add_queue)
               THEN \* the top is popped and pushed back, then queue.append raises
                    /\ add_stack' = pushed
                    /\ UNCHANGED add_queue
                    /\ Record("AddSpecial", None, None, "Exception", AddSnapshot)
               ELSE /\ add_stack' = pushed
                    /\ add_queue' = RotateQueue(appended, Len(appended) - 1)
                    /\ Record("AddSpecial", None, None, None, AddSnapshot)
    /\ UNCHANGED <<apply_wraps, set_layer, set_layers, seq_layers, grid>>

\* the colour get_color adds for one stack entry
ColorOfEntry(layer) == IF layer \in Layers THEN LayerColor(layer) ELSE <<0, 0, 0>>

RECURSIVE DrainStackButBottom(_, _, _)
\* the first loop stopping one layer early: the bottom layer is never popped
DrainStackButBottom(stack, color, temp_stack) ==
    IF Len(stack) <= 1 THEN [color |-> color, temp_stack |-> temp_stack]
    ELSE LET layer == Top(stack)
             layer_color == ColorOfEntry(layer)
         IN DrainStackButBottom(Popped(stack),
                       <<color[1] + layer_color[1], color[2] + layer_color[2],
                         color[3] + layer_color[3]>>,
                       Append(temp_stack, layer))

RECURSIVE DrainStack(_, _, _)
\* get_color's first loop: pop every layer, add its colour, push it on temp_stack
DrainStack(stack, color, temp_stack) ==
    IF stack = <<>> THEN [color |-> color, temp_stack |-> temp_stack]
    ELSE LET layer == Top(stack)
             layer_color == ColorOfEntry(layer)
         IN DrainStack(Popped(stack),
                       <<color[1] + layer_color[1], color[2] + layer_color[2],
                         color[3] + layer_color[3]>>,
                       Append(temp_stack, layer))

RECURSIVE RefillStackFromBottom(_, _)
\* the second loop taking temp_stack's layers from its bottom, not its top
RefillStackFromBottom(stack, temp_stack) ==
    IF temp_stack = <<>> THEN stack
    ELSE RefillStackFromBottom(Append(stack, Head(temp_stack)), Tail(temp_stack))

RECURSIVE RefillStack(_, _)
\* get_color's second loop: pop temp_stack back onto the stack
RefillStack(stack, temp_stack) ==
    IF temp_stack = <<>> THEN stack
    ELSE RefillStack(Append(stack, Top(temp_stack)), Popped(temp_stack))

\* AdditiveLayerStore.get_color(background_color, x, y, z)
AddGetColor(background_color) ==
    LET drained == DrainStack(add_stack, background_color, <<>>)
    IN /\ add_stack' = RefillStack(<<>>, drained.temp_stack)
       /\ Record("AddGetColor", background_color, drained.color, None, AddSnapshot)
       /\ UNCHANGED <<apply_wraps, set_layer, set_layers, add_queue, seq_layers, grid>>

RECURSIVE EraseFromStack(_, _, _, _, _)
\* erase's first loop, from iteration i of n: pop layers into temp_queue until
\* the one at `index` has been popped
EraseFromStack(stack, temp_queue, i, n, index) ==
    IF i >= n THEN [stack |-> stack, temp_queue |-> temp_queue]
    ELSE LET layer == Top(stack)
         IN IF i = index
            THEN [stack |-> Popped(stack), temp_queue |-> temp_queue]
            ELSE EraseFromStack(Popped(stack), Append(temp_queue, layer), i + 1, n, index)

RECURSIVE EraseFromQueue(_, _, _, _)
\* erase's third loop, from iteration i of n: serve layers and append them again
\* until the one at `index` has been served
EraseFromQueue(queue, i, n, index) ==
    IF i >= n THEN queue
    ELSE LET layer == Head(queue)
         IN IF i = index
            THEN Tail(queue)
            ELSE EraseFromQueue(Append(Tail(queue), layer), i + 1, n, index)

\* AdditiveLayerStore.erase(index)
AddErase(index) ==
    LET popped == EraseFromStack(add_stack, <<>>, 0, Len(add_stack), index)
    IN \* the second loop pushes temp_queue's layers back in the order served
       /\ add_stack' = popped.stack \o popped.temp_queue
       /\ add_queue' = EraseFromQueue(add_queue, 0, Len(add_queue), index)
       /\ Record("AddErase", index, None, None, AddSnapshot)
       /\ UNCHANGED <<apply_wraps, set_layer, set_layers, seq_layers, grid>>

----------------------------------------------------------------------------
(* SequenceLayerStore.  The ArraySortedList is the sequence of its items   *)
(* in traversal order.                                                     *)

\* layer.start and layer.timestamp, the thresholds get_color compares
LayerStart(l) == CASE l = "invert" -> 0 [] l = "red" -> 1 [] l = "green" -> 2
LayerTimestamp(l) == CASE l = "invert" -> 0 [] l = "red" -> 2 [] l = "green" -> 1

\* the start and timestamp values a caller passes to get_color
StartArgs == {0, 1, 2}
TimestampArgs == {0, 1, 2}

\* layer.get_color(x, y): the colour the layer renders
LayerGetColor(l) == LayerColor(l)

\* `layer in self.layers`
Contains(list, layer) == \E i \in 1 .. Len(list) : list[i] = layer

\* ArraySortedList.add: insert keeping ascending layer.index
SortedInsert(list, layer) ==
    LET before == SelectSeq(list, LAMBDA m : LayerIndex(m) < LayerIndex(layer))
        after == SelectSeq(list, LAMBDA m : ~(LayerIndex(m) < LayerIndex(layer)))
    IN before \o <<layer>> \o after

\* ArraySortedList.remove: delete the first item equal to layer
Removed(list, layer) ==
    LET at == CHOOSE i \in 1 .. Len(list) :
                  list[i] = layer /\ \A j \in 1 .. (i - 1) : list[j] # layer
    IN SubSeq(list, 1, at - 1) \o SubSeq(list, at + 1, Len(list))

\* add without the test for a layer already stored
SeqAddUnchecked(layer) ==
    /\ Len(seq_layers) < MaxLen + 1
    /\ seq_layers' = SortedInsert(seq_layers, layer)
    /\ Record("SeqAdd", layer, TRUE, None, SeqSnapshot)
    /\ UNCHANGED <<apply_wraps, set_layer, set_layers, add_stack, add_queue, grid>>

\* SequenceLayerStore.add(layer)
SeqAdd(layer) ==
    /\ IF Contains(seq_layers, layer)
       THEN /\ UNCHANGED seq_layers
            /\ Record("SeqAdd", layer, FALSE, None, SeqSnapshot)
       ELSE /\ seq_layers' = SortedInsert(seq_layers, layer)
            /\ Record("SeqAdd", layer, TRUE, None, SeqSnapshot)
    /\ UNCHANGED <<apply_wraps, set_layer, set_layers, add_stack, add_queue, grid>>

\* SequenceLayerStore.erase(layer)
SeqErase(layer) ==
    /\ IF Contains(seq_layers, layer)
       THEN /\ seq_layers' = Removed(seq_layers, layer)
            /\ Record("SeqErase", layer, TRUE, None, SeqSnapshot)
       ELSE /\ UNCHANGED seq_layers
            /\ Record("SeqErase", layer, FALSE, None, SeqSnapshot)
    /\ UNCHANGED <<apply_wraps, set_layer, set_layers, add_stack, add_queue, grid>>

\* whether get_color's first loop pushes the layer on valid_layers
IsValid(layer, start, timestamp) ==
    LayerTimestamp(layer) <= timestamp /\ LayerStart(layer) <= start

\* get_color's first loop: valid_layers, bottom first; curr_layer ends as its top
ValidLayers(list, start, timestamp) ==
    SelectSeq(list, LAMBDA layer : IsValid(layer, start, timestamp))

RECURSIVE PopValid(_, _, _)
\* get_color's second loop: pop valid_layers from the top, taking the colour of
\* each layer whose colour differs from curr_layer's
PopValid(valid_layers, curr_layer, color) ==
    IF valid_layers = <<>> THEN color
    ELSE LET layer == Top(valid_layers)
         IN IF LayerGetColor(layer) # LayerGetColor(curr_layer)
            THEN PopValid(Popped(valid_layers), layer, LayerGetColor(layer))
            ELSE PopValid(Popped(valid_layers), curr_layer, color)

\* SequenceLayerStore.get_color(start, timestamp, x, y)
SeqGetColor(start, timestamp) ==
    LET valid_layers == ValidLayers(seq_layers, start, timestamp)
    IN /\ IF valid_layers = <<>>
          THEN \* curr_layer is None: None.get_color
               Record("SeqGetColor", <<start, timestamp>>, None, "AttributeError", SeqSnapshot)
          ELSE LET curr_layer == Top(valid_layers)
               IN Record("SeqGetColor", <<start, timestamp>>,
                         PopValid(valid_layers, curr_layer, LayerGetColor(curr_layer)),
                         None, SeqSnapshot)
       /\ UNCHANGED <<apply_wraps, set_layer, set_layers, add_stack, add_queue, seq_layers, grid>>

\* SequenceLayerStore.special(): its first statement calls CircularQueueQueue,
\* a name the module neither defines nor imports
SeqSpecial ==
    /\ Record("SeqSpecial", None, None, "NameError", SeqSnapshot)
    /\ UNCHANGED <<apply_wraps, set_layer, set_layers, add_stack, add_queue, seq_layers, grid>>

----------------------------------------------------------------------------
(* Grid (grid.py).                                                         *)

DRAW_STYLE_SET == "SET"
DRAW_STYLE_ADD == "ADD"
DRAW_STYLE_SEQUENCE == "SEQUENCE"
DRAW_STYLE_OPTIONS == {DRAW_STYLE_SET, DRAW_STYLE_ADD, DRAW_STYLE_SEQUENCE}

DEFAULT_BRUSH_SIZE == 1
MAX_BRUSH == 5
MIN_BRUSH == 0

\* the most rows and the most columns of a Grid the model constructs
MaxDim == 2

\* the dimensions passed to Grid: at least one row and one column (ArrayR of
\* length 0 is not constructed)
Dimensions == 1..MaxDim

\* the draw styles passed to Grid: the three options and one that is none
DrawStyleArgs == DRAW_STYLE_OPTIONS \cup {"some"}

\* no Grid object: none constructed yet, or __init__ raised
NoGrid == [draw_style |-> None]

GridSnapshot == [grid |-> grid]

\* a slot of ArrayR(self.cols) that was never assigned
EmptySlot == [variant |-> None, instance |-> 0]

\* a newly constructed store object; `instance` tells the objects apart
NewStore(variant, instance) == [variant |-> variant, instance |-> instance]

\* what lines 46-51 leave in one square of a grid of the given draw style
SquareOf(draw_style, instance) ==
    IF draw_style = "Set" THEN NewStore("SetLayerStore", instance)
    ELSE IF draw_style = "Additive" THEN NewStore("AdditiveLayerStore", instance)
    ELSE IF draw_style = "Sequential" THEN NewStore("SequenceLayerStore", instance)
    ELSE EmptySlot

\* Grid.__init__(draw_style, x, y)
GridInit(draw_style, x, y) ==
    /\ IF draw_style \in DRAW_STYLE_OPTIONS
       THEN /\ grid' = [draw_style |-> draw_style,
                        brush_size |-> DEFAULT_BRUSH_SIZE,
                        rows |-> x,
                        cols |-> y,
                        grid |-> [i \in 0..(x - 1) |->
                                     [j \in 0..(y - 1) |-> SquareOf(draw_style, i * y + j + 1)]]]
            /\ Record("GridInit", <<draw_style, x, y>>, None, None, GridSnapshot)
       ELSE \* 'Draw style not correct' is printed and self.draw_style is not
            \* assigned; line 46 reads it for the first square
            /\ grid' = NoGrid
            /\ Record("GridInit", <<draw_style, x, y>>, None, "AttributeError", GridSnapshot)
    /\ UNCHANGED <<apply_wraps, set_layer, set_layers, add_stack, add_queue, seq_layers>>

\* increase_brush_size without the comparison to MAX_BRUSH
increase_brush_size_unbounded ==
    /\ grid # NoGrid
    /\ grid' = [grid EXCEPT !.brush_size = @ + 1]
    /\ Record("increase_brush_size", None, None, None, GridSnapshot)
    /\ UNCHANGED <<apply_wraps, set_layer, set_layers, add_stack, add_queue, seq_layers>>

\* Grid.increase_brush_size()
increase_brush_size ==
    /\ grid # NoGrid
    /\ IF grid.brush_size < MAX_BRUSH
       THEN grid' = [grid EXCEPT !.brush_size = @ + 1]
       ELSE UNCHANGED grid
    /\ Record("increase_brush_size", None, None, None, GridSnapshot)
    /\ UNCHANGED <<apply_wraps, set_layer, set_layers, add_stack, add_queue, seq_layers>>

\* Grid.decrease_brush_size()
decrease_brush_size ==
    /\ grid # NoGrid
    /\ IF grid.brush_size > MIN_BRUSH
       THEN grid' = [grid EXCEPT !.brush_size = @ - 1]
       ELSE UNCHANGED grid
    /\ Record("decrease_brush_size", None, None, None, GridSnapshot)
    /\ UNCHANGED <<apply_wraps, set_layer, set_layers, add_stack, add_queue, seq_layers>>

----------------------------------------------------------------------------
Init ==
    /\ apply_wraps = [l \in Layers |-> 0]
    /\ set_layer = None
    /\ set_layers = [i \in SlotIndexes |-> None]
    /\ add_stack = <<>>
    /\ add_queue = <<>>
    /\ seq_layers = <<>>
    /\ last = [op |-> "init", arg |-> None, ret |-> None, raised |-> None]
    /\ prev = last
    /\ pre = <<>>
    /\ pre2 = <<>>
    /\ grid = NoGrid

SetNext ==
    \/ \E layer \in Layers \cup {None} : SetAdd(layer)
    \/ \E layer \in Layers \cup {None} : SetErase(layer)
    \/ \E start \in BaseColors : SetGetColor(start)
    \/ SetSpecial

SpecSet == Init /\ [][SetNext]_vars

\* a store that has not outgrown the lengths the model explores
AddNext ==
    \/ \E layer \in Layers \cup {None} : Len(add_queue) < MaxLen /\ AddAdd(layer)
    \/ \E index \in Positions : AddErase(index)
    \/ \E background_color \in BaseColors : AddGetColor(background_color)
    \/ Len(add_queue) < MaxLen /\ AddSpecial

SpecAdditive == Init /\ [][AddNext]_vars

\* a store filled to its capacity with one layer; special, which lets the
\* queue outgrow the stack, is called on short queues only
CapacityNext ==
    \/ AddAdd("red")
    \/ Len(add_queue) < MaxLen /\ AddSpecial

SpecCapacity == Init /\ [][CapacityNext]_vars

GridNext ==
    \/ \E draw_style \in DrawStyleArgs, x \in Dimensions, y \in Dimensions :
           GridInit(draw_style, x, y)
    \/ increase_brush_size
    \/ decrease_brush_size

SpecGrid == Init /\ [][GridNext]_vars

SeqNext ==
    \/ \E layer \in Layers : SeqAdd(layer)
    \/ \E layer \in Layers : SeqErase(layer)
    \/ \E start \in StartArgs, timestamp \in TimestampArgs : SeqGetColor(start, timestamp)
    \/ SeqSpecial

SpecSequence == Init /\ [][SeqNext]_vars

\* the calls of each store variant
SetOps == {"SetAdd", "SetErase", "SetGetColor", "SetSpecial"}
AddOps == {"AddAdd", "AddErase", "AddGetColor", "AddSpecial"}
SeqOps == {"SeqAdd", "SeqErase", "SeqGetColor", "SeqSpecial"}

\* one LayerStore of any of the three variants: the first call fixes the
\* variant, and every later call is one of the same store
StoreNext ==
    \/ last.op \in SetOps \cup {"init"} /\ SetNext
    \/ last.op \in AddOps \cup {"init"} /\ AddNext
    \/ last.op \in SeqOps \cup {"init"} /\ SeqNext

SpecStore == Init /\ [][StoreNext]_vars

----------------------------------------------------------------------------
(* Properties of SetLayerStore, checked under SpecSet. *)

\* the slot indexes holding a layer
OccupiedSlots == {i \in SlotIndexes : set_layers[i] # None}

\* C7: at most one slot of the slot array is non-null, and a slot is non-null
\* exactly when current is set and the slot is the one at current.index.
C7_SingleSlotMatchesCurrent ==
    /\ Cardinality(OccupiedSlots) <= 1
    /\ \A i \in SlotIndexes :
          (set_layers[i] # None) <=> (set_layer # None /\ i = LayerIndex(set_layer))

\* C8: after two special() calls in a row, get_color of the store and the apply
\* of every catalog layer give, for every base colour, what they gave before
\* the two calls.
C8_DoubleSpecialIsIdentity ==
    (last.op = "SetSpecial" /\ prev.op = "SetSpecial") =>
        \A c \in BaseColors :
            /\ SetColorOf(set_layer, apply_wraps, c)
                  = SetColorOf(pre2.set_layer, pre2.apply_wraps, c)
            /\ \A l \in Layers :
                  LayerApply(l, apply_wraps, c) = LayerApply(l, pre2.apply_wraps, c)

\* two special() calls in a row on a store whose active layer they wrapped twice
C8_Witness ==
    /\ last.op = "SetSpecial" /\ prev.op = "SetSpecial"
    /\ set_layer = "invert" /\ apply_wraps["invert"] = pre2.apply_wraps["invert"] + 2
    /\ Cardinality(OccupiedSlots) = 2

\* C9: add(L) with non-null L returns true and makes L the active layer, so a
\* get_color right after it returns L.apply(base) whatever was added before;
\* add(null) returns false and changes nothing.
C9_AddReplaces ==
    /\ last.op = "SetAdd" =>
          IF last.arg # None
          THEN last.ret = TRUE /\ set_layer = last.arg
          ELSE /\ last.ret = FALSE
               /\ set_layer = pre.set_layer /\ set_layers = pre.set_layers
               /\ apply_wraps = pre.apply_wraps
    /\ (last.op = "SetGetColor" /\ prev.op = "SetAdd" /\ prev.arg # None) =>
          last.ret = LayerApply(prev.arg, apply_wraps, last.arg)

\* add(L1); add(L2); get_color(base) with L1 # L2
C9_Witness ==
    /\ last.op = "SetGetColor" /\ prev.op = "SetAdd" /\ prev.arg = "red"
    /\ pre2.set_layer = "invert"
    /\ last.ret = <<255, 0, 0>>

\* C10: erase(L) of a layer the store does not hold returns false and leaves the
\* store and its get_color output unchanged; erase(L) of a held layer returns
\* true and removes it (Set: held means L is the active layer; Sequence: L is
\* stored).
C10_EraseOnlyIfHeld ==
    /\ (last.op = "SetErase" /\ last.arg # None) =>
          IF pre.set_layer # last.arg
          THEN /\ last.ret = FALSE
               /\ set_layer = pre.set_layer /\ set_layers = pre.set_layers
               /\ \A c \in BaseColors :
                     SetColorOf(set_layer, apply_wraps, c)
                       = SetColorOf(pre.set_layer, pre.apply_wraps, c)
          ELSE last.ret = TRUE /\ set_layer = None
    /\ last.op = "SeqErase" =>
          IF \E i \in 1 .. Len(pre.seq_layers) : pre.seq_layers[i] = last.arg
          THEN /\ last.ret = TRUE
               /\ \A i \in 1 .. Len(seq_layers) : seq_layers[i] # last.arg
          ELSE last.ret = FALSE /\ seq_layers = pre.seq_layers

----------------------------------------------------------------------------
(* Properties of AdditiveLayerStore, checked under SpecAdditive. *)

\* a sequence with its first element moved to the end
RotatedLeft(order) == IF order = <<>> THEN order ELSE Append(Tail(order), Head(order))

\* a sequence without the element at position p, counted from 0
WithoutPosition(order, p) == SubSeq(order, 1, p) \o SubSeq(order, p + 2, Len(order))

RECURSIVE SumOfColors(_)
\* the channel-wise sum of the fixed colours of the entries of a sequence
SumOfColors(order) ==
    IF order = <<>> THEN <<0, 0, 0>>
    ELSE LET c == ColorOfEntry(Head(order))
             rest == SumOfColors(Tail(order))
         IN <<c[1] + rest[1], c[2] + rest[2], c[3] + rest[3]>>

\* background plus a sum of colours
Plus(background, sum) ==
    <<background[1] + sum[1], background[2] + sum[2], background[3] + sum[3]>>

\* what get_color returns for the given stack
AddColorOf(stack, background) == DrainStack(stack, background, <<>>).color

\* the bijections of 1 .. n, for every length of stack the model reaches
Permutations ==
    [n \in 0 .. (MaxLen + 1) |->
        {f \in [1 .. n -> 1 .. n] : \A i, j \in 1 .. n : f[i] = f[j] => i = j}]

\* C1: special() on a store whose add order is [L1, ..., Ln], n >= 2, leaves the
\* add order [L2, ..., Ln, L1] in the container erase and get_color read (the
\* stack) and in the queue, with the number of stored layers unchanged.
C1_SpecialRotatesLeft ==
    (/\ last.op = "AddSpecial"
     /\ pre.add_stack = pre.add_queue
     /\ Len(pre.add_stack) >= 2) =>
        /\ add_stack = RotatedLeft(pre.add_stack)
        /\ add_queue = RotatedLeft(pre.add_queue)
        /\ Len(add_stack) = Len(pre.add_stack)
        /\ Len(add_queue) = Len(pre.add_queue)

\* C2: erase(p) with 0 <= p < number of stored layers removes the layer at
\* position p of the add order (0 = earliest) and keeps the order of the others,
\* so get_color afterwards returns the background plus the colours of the rest.
C2_EraseRemovesPosition ==
    (/\ last.op = "AddErase"
     /\ pre.add_stack = pre.add_queue
     /\ last.arg < Len(pre.add_stack)) =>
        /\ add_stack = WithoutPosition(pre.add_stack, last.arg)
        /\ add_queue = WithoutPosition(pre.add_queue, last.arg)
        /\ \A background \in BaseColors :
              AddColorOf(add_stack, background)
                = Plus(background, SumOfColors(WithoutPosition(pre.add_stack, last.arg)))

\* C3: get_color(background) returns the background plus, channel by channel,
\* the fixed colour of every layer on the stack, once per entry; and get_color
\* on every reordering of the stored layers returns that same colour.
C3_GetColorIsSum ==
    last.op = "AddGetColor" =>
        /\ last.ret = Plus(last.arg, SumOfColors(pre.add_stack))
        /\ \A f \in Permutations[Len(pre.add_stack)] :
              AddColorOf([i \in 1 .. Len(pre.add_stack) |-> pre.add_stack[f[i]]], last.arg)
                = last.ret

\* get_color on a store holding red twice and green once
C3_Witness ==
    /\ last.op = "AddGetColor"
    /\ last.arg = <<10, 200, 255>>
    /\ pre.add_stack = <<"red", "green", "red">>
    /\ pre.add_queue = pre.add_stack
    /\ last.ret = <<520, 455, 255>>

----------------------------------------------------------------------------
(* Properties of SequenceLayerStore, checked under SpecSequence. *)

\* the stored layers ordered by name
RECURSIVE ByName(_)
ByName(stored) ==
    IF stored = {} THEN <<>>
    ELSE LET first == CHOOSE l \in stored : \A m \in stored : NameRank(l) <= NameRank(m)
         IN <<first>> \o ByName(stored \ {first})

\* the set of layers in a list
Stored(list) == {list[i] : i \in 1 .. Len(list)}

\* the layer with the median name: the middle one, the lower of the two middle
\* ones when the count is even
MedianByName(list) == ByName(Stored(list))[(Len(list) + 1) \div 2]

\* C4: special() on a store of n >= 2 layers removes exactly the layer with the
\* median name and keeps the other n - 1; on a store of 0 or 1 layers it removes
\* nothing.
C4_SpecialRemovesMedian ==
    last.op = "SeqSpecial" =>
        IF Len(pre.seq_layers) >= 2
        THEN seq_layers = Removed(pre.seq_layers, MedianByName(pre.seq_layers))
        ELSE seq_layers = pre.seq_layers

RECURSIVE AscendingScan(_, _)
\* the running colour after scanning layers in the order given, replaced each
\* time a layer's colour differs from it
AscendingScan(valid, running) ==
    IF valid = <<>> THEN running
    ELSE AscendingScan(Tail(valid),
                       IF LayerGetColor(Head(valid)) # running
                       THEN LayerGetColor(Head(valid)) ELSE running)

\* C5: with at least one valid layer, get_color returns the running colour of a
\* scan of the valid layers in ascending index order.
C5_GetColorScansAscending ==
    (last.op = "SeqGetColor"
       /\ ValidLayers(pre.seq_layers, last.arg[1], last.arg[2]) # <<>>) =>
        LET valid == ValidLayers(pre.seq_layers, last.arg[1], last.arg[2])
        IN last.ret = AscendingScan(valid, LayerGetColor(Head(valid)))

\* C6: no layer is stored twice, the layers are traversed in ascending index
\* order, and add(L) returns true iff L was not stored before the call, leaving
\* exactly one L stored.
C6_UniqueAndSorted ==
    /\ \A i, j \in 1 .. Len(seq_layers) :
          /\ (seq_layers[i] = seq_layers[j]) => i = j
          /\ i < j => LayerIndex(seq_layers[i]) < LayerIndex(seq_layers[j])
    /\ last.op = "SeqAdd" =>
          /\ last.ret = ~Contains(pre.seq_layers, last.arg)
          /\ Cardinality({i \in 1 .. Len(seq_layers) : seq_layers[i] = last.arg}) = 1

\* add(L) of a layer already stored, between two others, returning false
C6_Witness ==
    /\ last.op = "SeqAdd" /\ last.arg = "red" /\ last.ret = FALSE
    /\ seq_layers = <<"invert", "red", "green">>

----------------------------------------------------------------------------
(* Further properties of the three stores. *)

\* C11: erase(p) with p >= the number of stored layers leaves the stored
\* layers, their order in the stack and in the queue, and every get_color
\* output unchanged.  (erase has no return statement: it returns None, which
\* is falsy, for every argument.)
C11_EraseOutOfRangeChangesNothing ==
    (/\ last.op = "AddErase"
     /\ pre.add_stack = pre.add_queue
     /\ last.arg >= Len(pre.add_stack)) =>
        /\ last.raised = None
        /\ add_stack = pre.add_stack
        /\ add_queue = pre.add_queue
        /\ \A background \in BaseColors :
              AddColorOf(add_stack, background) = AddColorOf(pre.add_stack, background)

\* C12: special() on an empty store of any variant raises nothing and leaves
\* the store empty.
C12_SpecialOnEmptyStore ==
    /\ (last.op = "SetSpecial" /\ pre.set_layer = None /\ pre.set_layers = [i \in SlotIndexes |-> None]) =>
          last.raised = None /\ set_layer = None /\ OccupiedSlots = {}
    /\ (last.op = "AddSpecial" /\ pre.add_stack = <<>> /\ pre.add_queue = <<>>) =>
          last.raised = None /\ add_stack = <<>> /\ add_queue = <<>>
    /\ (last.op = "SeqSpecial" /\ pre.seq_layers = <<>>) =>
          last.raised = None /\ seq_layers = <<>>

\* C13: get_color on a store with no active layer (Set: current null;
\* Additive: no layers; Sequence: no stored layer valid for the arguments)
\* raises nothing and returns the colour it was given.
C13_GetColorWithoutLayer ==
    /\ (last.op = "SetGetColor" /\ pre.set_layer = None) =>
          last.raised = None /\ last.ret = last.arg
    /\ (last.op = "AddGetColor" /\ pre.add_stack = <<>>) =>
          last.raised = None /\ last.ret = last.arg
    /\ (last.op = "SeqGetColor"
          /\ ValidLayers(pre.seq_layers, last.arg[1], last.arg[2]) = <<>>) =>
          last.raised = None /\ last.ret = last.arg[1]

\* C16: no call changes a catalog layer: the apply of every layer gives, for
\* every base colour, what the catalog's function gives, so any store that adds
\* the layer shows the catalog's colour.
C16_CatalogNeverMutated ==
    \A l \in Layers : \A c \in BaseColors :
        LayerApply(l, apply_wraps, c) = CatalogApply(l, c)

\* C17: the stack (bottom to top) and the queue (front to rear) of an
\* AdditiveLayerStore hold the same layers in the same order.
C17_StackAndQueueAgree == add_stack = add_queue

\* C14: get_color changes no store: after it returns, the store's contents and
\* order are those before the call (for an AdditiveLayerStore the stack is
\* restored and the queue untouched), no catalog layer has changed, and the
\* same call made again returns the same colour.
C14_GetColorIsPureRead ==
    /\ last.op = "SetGetColor" =>
          /\ set_layer = pre.set_layer /\ set_layers = pre.set_layers
          /\ apply_wraps = pre.apply_wraps
          /\ SetColorOf(set_layer, apply_wraps, last.arg) = last.ret
    /\ last.op = "AddGetColor" =>
          /\ add_stack = pre.add_stack /\ add_queue = pre.add_queue
          /\ AddColorOf(add_stack, last.arg) = last.ret
    /\ last.op = "SeqGetColor" =>
          /\ seq_layers = pre.seq_layers
          /\ LET valid == ValidLayers(seq_layers, last.arg[1], last.arg[2])
             IN IF valid = <<>>
                THEN last.raised = "AttributeError"
                ELSE /\ last.raised = None
                     /\ last.ret = PopValid(valid, Top(valid), LayerGetColor(Top(valid)))

\* get_color on an AdditiveLayerStore holding three different entries
C14_Witness ==
    /\ last.op = "AddGetColor"
    /\ pre.add_stack = <<"red", "green", "invert">>
    /\ add_stack = <<"red", "green", "invert">>

\* whether a sequence begins with another
StartsWith(order, begin) ==
    Len(begin) <= Len(order) /\ SubSeq(order, 1, Len(begin)) = begin

\* C15: add on a store that holds max_capacity layers raises, and no layer
\* stored before any add is lost or replaced; an add that returns normally has
\* stored its layer last, in the stack and in the queue.
C15_AddAtCapacityRaises ==
    last.op = "AddAdd" =>
        /\ (Len(pre.add_stack) = MAX_CAPACITY \/ Len(pre.add_queue) = MAX_CAPACITY)
              => last.raised # None
        /\ StartsWith(add_stack, pre.add_stack)
        /\ StartsWith(add_queue, pre.add_queue)
        /\ last.raised = None =>
              /\ add_stack = Append(pre.add_stack, last.arg)
              /\ add_queue = Append(pre.add_queue, last.arg)

\* add on a store whose stack and queue both hold max_capacity layers
C15_Witness ==
    /\ last.op = "AddAdd" /\ last.raised = "Exception"
    /\ Len(pre.add_stack) = MAX_CAPACITY /\ Len(pre.add_queue) = MAX_CAPACITY
    /\ Len(add_stack) = MAX_CAPACITY

----------------------------------------------------------------------------
(* Properties of Grid.                                                     *)

\* the store variant a draw style selects
VariantOf(draw_style) ==
    IF draw_style = DRAW_STYLE_SET THEN "SetLayerStore"
    ELSE IF draw_style = DRAW_STYLE_ADD THEN "AdditiveLayerStore"
    ELSE "SequenceLayerStore"

\* the squares of the constructed grid
Squares == (0..(grid.rows - 1)) \X (0..(grid.cols - 1))

\* C18: a Grid constructed with one of DRAW_STYLE_OPTIONS holds in every
\* square one store of the variant the draw style selects, and no two squares
\* hold the same store object.
C18_EverySquareHoldsItsOwnStore ==
    (last.op = "GridInit" /\ last.arg[1] \in DRAW_STYLE_OPTIONS) =>
        /\ last.raised = None
        /\ \A s \in Squares : grid.grid[s[1]][s[2]].variant = VariantOf(grid.draw_style)
        /\ \A s, t \in Squares :
              s # t => grid.grid[s[1]][s[2]].instance # grid.grid[t[1]][t[2]].instance

\* C20: brush_size starts at DEFAULT_BRUSH_SIZE and stays between MIN_BRUSH and
\* MAX_BRUSH; increase at MAX_BRUSH and decrease at MIN_BRUSH leave it
\* unchanged, any other call changes it by exactly 1.
C20_BrushSizeBounded ==
    grid # NoGrid =>
        /\ MIN_BRUSH <= grid.brush_size /\ grid.brush_size <= MAX_BRUSH
        /\ last.op = "GridInit" => grid.brush_size = DEFAULT_BRUSH_SIZE /\ DEFAULT_BRUSH_SIZE = 1
        /\ last.op = "increase_brush_size" =>
              grid.brush_size = IF pre.grid.brush_size = MAX_BRUSH
                                THEN pre.grid.brush_size
                                ELSE pre.grid.brush_size + 1
        /\ last.op = "decrease_brush_size" =>
              grid.brush_size = IF pre.grid.brush_size = MIN_BRUSH
                                THEN pre.grid.brush_size
                                ELSE pre.grid.brush_size - 1

\* increase_brush_size called on a Grid whose brush is at MAX_BRUSH
C20_Witness ==
    /\ grid # NoGrid
    /\ last.op = "increase_brush_size"
    /\ pre.grid.brush_size = MAX_BRUSH
    /\ grid.brush_size = MAX_BRUSH

====
